---- MODULE Spec2Model ----
(***************************************************************************)
(* Order execution engine: the BullMQ worker (queue/orderQueue.ts), the    *)
(* limit-order state machine (services/limitOrderService.ts), the record   *)
(* store (services/orderService.ts) and the mock DEX router                *)
(* (dex/MockDexRouter.ts).                                                 *)
(*                                                                         *)
(* Units.  Quote prices are integers in milli-dollars, fees are integers   *)
(* in per-mille, so price * (1 - fee) is price * (FeeScale - fee) in       *)
(* micro-dollars.  Effective prices, limit prices and executed prices are  *)
(* in micro-dollars.                                                       *)
(***************************************************************************)
EXTENDS Integers, Sequences, FiniteSets, TLC

(***************************************************************************)
(* Bounds of the model.                                                    *)
(***************************************************************************)
NumOrders == 1
\* Jobs submitted to the scheduler in SpecSched: more than Concurrency.
NumJobs == 11
\* The quote grid of SpecRouter: prices 998 * k (Raydium) and 997 * k (Meteora)
\* for k in BaseK .. BaseK + PriceSteps, so that equal, lower and higher
\* effective prices all occur.
BaseK == 184
PriceSteps == 3
NumSockets == 2
NumWsOrders == 2
MaxEmits == 2
MaxSubscribes == 2

OrderIds == 1..NumOrders

(***************************************************************************)
(* Program constants.                                                      *)
(***************************************************************************)
Concurrency == 10
JobAttempts == 3
BackoffDelay == 1000
maxRetries == 3
retryDelayMs == 3000
FeeScale == 1000
RaydiumFee == 3
MeteoraFee == 2
NoLimit == 0
RetryAmountIn == 1500

\* Quotes the two venues can return (basePrice 185.50 with its variance).
RaydiumPrices == {185000}
MeteoraPrices == {184000, 185442}
\* Realized prices executeSwap can return (basePrice * [0.99, 1.01)).
ExecPrices == {184000000, 187000000}
\* Limit prices a submitter can send: unreachably low, equal to the lowest
\* effective price, unreachably high.
LimitPrices == {100000000, 183632000, 190000000}
\* Amounts a submitter can send, in thousandths of tokenIn, and token names.
AmountsIn == {-2000, 0, 2000}
TokensIn == {"", "SOL"}
\* The optional limitPrice of a body: <<>> when the field is absent, else <<p>>.
BodyLimits == {<<>>} \cup {<<l>> : l \in LimitPrices \cup {0, -183632000}}

Body(type, tokenIn, amountIn, limitPrice) ==
    [type |-> type, tokenIn |-> tokenIn, tokenOut |-> "USDC",
     amountIn |-> amountIn, limitPrice |-> limitPrice]

\* Request bodies: LIMIT orders with and without a limit price, and MARKET
\* orders without one (with one they run exactly as LIMIT orders do), with
\* valid and invalid amounts, limit prices and token names.
Requests ==
    {Body("LIMIT", t, a, l) : t \in TokensIn, a \in AmountsIn, l \in BodyLimits}
        \cup {Body("MARKET", t, a, <<>>) : t \in TokensIn, a \in AmountsIn}

VARIABLES
    orders,      \* record store: order id -> Order row
    job,         \* BullMQ job of each order: state, attemptsMade, delays given
    waitq,       \* BullMQ wait list (FIFO of order ids)
    run,         \* locals of the processLimitOrder run of each order
    broadcast,   \* per order, the sequence of events handed to wsManager.emit
    runs,        \* per order, the outcome of each finished run
    sched,       \* SpecSched: the queue's job counts, by attemptsMade
    router,      \* SpecRouter: inputs and results of the router's functions
    ws,          \* SpecWs: wsManager's registry, the sockets and their traffic
    api          \* POST /api/orders/execute: the last body and its reply

orderVars == <<orders, job, waitq, run, broadcast, runs>>

vars == <<orders, job, waitq, run, broadcast, runs, sched, router, ws, api>>

(***************************************************************************)
(* Values.                                                                 *)
(***************************************************************************)
NoReason == [kind |-> "none", attempts |-> 0, best |-> 0, limit |-> 0]

NoRoute == [selectedDex |-> "", price |-> 0, fee |-> 0, effectivePrice |-> 0]

\* Value of the attempts column of a new row: createOrder does not set it, the
\* column's default in the Prisma schema does.
DefaultAttempts == 0

NoOrder ==
    [status |-> "absent", type |-> "", tokenIn |-> "", tokenOut |-> "",
     amountIn |-> 0, limitPrice |-> NoLimit, attempts |-> DefaultAttempts,
     dex |-> "", executedPrice |-> 0, txHash |-> "", errorReason |-> NoReason,
     \* the OrderHistory rows of the order
     history |-> <<>>]

NoArgs == [tokenIn |-> "", tokenOut |-> "", amountIn |-> 0]

NoRequest == Body("", "", 0, <<>>)

\* getStatistics: not called, its queries under way, or returned
IdleStats == [pc |-> "idle", counts |-> [q \in {} |-> 0]]

IdleApi ==
    [request |-> NoRequest, reply |-> 0, accepted |-> 0, stats |-> IdleStats]

NoJob == [state |-> "none", attemptsMade |-> 0, delays |-> <<>>]

IdleRun ==
    [pc |-> "idle", limitPrice |-> NoLimit, routeResult |-> NoRoute,
     currentPrice |-> 0, attempt |-> 0, swapPrice |-> 0, swapTx |-> "",
     error |-> NoReason,
     \* instrumentation of the run
     mark |-> 0, evals |-> 0, routeCalls |-> 0, waits |-> <<>>,
     anyOk |-> FALSE, swapCalls |-> 0, lastDex |-> "",
     firstArgs |-> NoArgs, retryArgs |-> NoArgs]

Event(status, dex, price, txHash, error) ==
    [status |-> status, dex |-> dex, price |-> price, txHash |-> txHash,
     error |-> error]

(***************************************************************************)
(* MockDexRouter.                                                          *)
(***************************************************************************)
getRaydiumQuote(p) == [price |-> p, fee |-> RaydiumFee, dex |-> "RAYDIUM"]

getMeteorQuote(p) == [price |-> p, fee |-> MeteoraFee, dex |-> "METEORA"]

Effective(q) == q.price * (FeeScale - q.fee)

\* Faulty variant: the comparison reversed, so the dearer venue is selected.
SelectDexReversed(raydiumQuote, meteoraQuote) ==
    IF Effective(raydiumQuote) > Effective(meteoraQuote)
    THEN "RAYDIUM" ELSE "METEORA"

\* Faulty variant: a tie goes to the other venue.
SelectDexTieRaydium(raydiumQuote, meteoraQuote) ==
    IF Effective(raydiumQuote) <= Effective(meteoraQuote)
    THEN "RAYDIUM" ELSE "METEORA"

SelectDex(raydiumQuote, meteoraQuote) ==
    IF Effective(raydiumQuote) < Effective(meteoraQuote)
    THEN "RAYDIUM" ELSE "METEORA"

routeOrder(raydiumQuote, meteoraQuote) ==
    LET selectedDex == SelectDex(raydiumQuote, meteoraQuote)
        selectedQuote == IF selectedDex = "RAYDIUM" THEN raydiumQuote
                         ELSE meteoraQuote
    IN  [selectedDex |-> selectedDex,
         price |-> selectedQuote.price,
         fee |-> selectedQuote.fee,
         effectivePrice |-> Effective(selectedQuote)]

\* Faulty variant: a strict comparison, so equality does not satisfy the limit.
checkLimitConditionStrict(bestPrice, limitPrice) == bestPrice < limitPrice

\* Faulty variant: an absent limit price lets every price through.
checkLimitConditionNoLimitPasses(bestPrice, limitPrice) ==
    limitPrice = NoLimit \/ bestPrice <= limitPrice

\* bestPrice <= limitPrice; an absent limitPrice is null, which compares as 0.
checkLimitCondition(bestPrice, limitPrice) == bestPrice <= limitPrice

(***************************************************************************)
(* LimitOrderService.                                                      *)
(***************************************************************************)
\* Faulty variant: the attempt bound off by one, so a fourth attempt is made.
GateOutcomeOffByOne(currentPrice, limitPrice, attempt) ==
    IF checkLimitCondition(currentPrice, limitPrice) THEN "pass"
    ELSE IF attempt > maxRetries THEN "fail"
    ELSE "retry"

\* Faulty variant: an exhausted gate lets the order through.
GateOutcomeLenient(currentPrice, limitPrice, attempt) ==
    IF checkLimitCondition(currentPrice, limitPrice) THEN "pass"
    ELSE IF attempt >= maxRetries THEN "pass"
    ELSE "retry"

\* The branch checkLimitWithRetry takes on one attempt.
GateOutcome(currentPrice, limitPrice, attempt) ==
    IF checkLimitCondition(currentPrice, limitPrice) THEN "pass"
    ELSE IF attempt >= maxRetries THEN "fail"
    ELSE "retry"

\* Number.prototype.toFixed(2) of an amount in micro-dollars: the amount in
\* cents, rounded to the nearest cent (a half rounds up).
ToFixed2(x) == (x + 5000) \div 10000

\* The Error processLimitOrder throws when the gate returns false: its message
\* names maxRetries, routeResult.effectivePrice.toFixed(2) and
\* limitPrice.toFixed(2).
LimitError(routeResult, limitPrice) ==
    [kind |-> "LimitNotReached", attempts |-> maxRetries,
     best |-> ToFixed2(routeResult.effectivePrice),
     limit |-> ToFixed2(limitPrice)]

\* The TypeError of limitPrice.toFixed(2) on an absent (null) limitPrice, in
\* the log line of the exhausted gate.
NullLimitError == [kind |-> "TypeError", attempts |-> 0, best |-> 0, limit |-> 0]

\* What reaches the catch of processLimitOrder when the gate is exhausted.
GateError(routeResult, limitPrice) ==
    IF limitPrice = NoLimit THEN NullLimitError
    ELSE LimitError(routeResult, limitPrice)

\* Faulty variant: the message is dropped.
errorMessageEmpty(error) == NoReason

\* error instanceof Error ? error.message : 'Unknown error'
errorMessage(error) == error

emitStatus(o, ev) == broadcast' = [broadcast EXCEPT ![o] = Append(@, ev)]

\* One attempt of checkLimitWithRetry on `price`, and what processLimitOrder
\* does with its answer up to the next suspension point.  `r` is the run with
\* the routing of this attempt recorded, `evs` the events emitted before it.
GateAttempt(o, r, price, attempt, evs) ==
    LET out == GateOutcome(price, r.limitPrice, attempt)
        r1 == [r EXCEPT !.currentPrice = price, !.attempt = attempt,
                        !.evals = @ + 1,
                        !.anyOk = @ \/ (price <= r.limitPrice)]
    IN  CASE out = "pass" ->
               /\ run' = [run EXCEPT ![o] = [r1 EXCEPT !.pc = "building"]]
               /\ broadcast' = [broadcast EXCEPT ![o] =
                     @ \o evs \o <<Event("building", "", 0, "", NoReason)>>]
          [] out = "fail" ->
               LET err == errorMessage(GateError(r.routeResult, r.limitPrice))
               IN  /\ run' = [run EXCEPT ![o] =
                         [r1 EXCEPT !.pc = "persistFailed", !.error = err]]
                   /\ broadcast' = [broadcast EXCEPT ![o] =
                         @ \o evs \o <<Event("failed", "", 0, "", err)>>]
          [] out = "retry" ->
               /\ run' = [run EXCEPT ![o] =
                     [r1 EXCEPT !.pc = "gateSleep",
                                !.waits = Append(@, retryDelayMs)]]
               /\ broadcast' = [broadcast EXCEPT ![o] = @ \o evs]

(***************************************************************************)
(* POST /api/orders/execute: validate, createOrder, addOrderToQueue.       *)
(***************************************************************************)
NextOrderId == CHOOSE o \in OrderIds :
    /\ orders[o].status = "absent"
    /\ \A p \in OrderIds : p < o => orders[p].status # "absent"

\* CreateOrderSchema.safeParse succeeds.
SchemaOk(body) ==
    /\ body.type \in {"LIMIT", "MARKET", "SNIPER"}
    /\ body.tokenIn # ""
    /\ body.tokenOut # ""
    /\ body.amountIn > 0
    /\ (IF Len(body.limitPrice) = 0 THEN TRUE ELSE body.limitPrice[1] > 0)

\* !orderData.limitPrice
NoLimitPrice(body) ==
    IF Len(body.limitPrice) = 0 THEN TRUE ELSE body.limitPrice[1] = 0

\* Faulty variant: the handler's own test of LIMIT orders is missing.
AcceptedBySchema(body) == SchemaOk(body)

\* The body passes the schema and the handler's test of LIMIT orders.
Accepted(body) ==
    SchemaOk(body) /\ ~(body.type = "LIMIT" /\ NoLimitPrice(body))

\* The limitPrice column of the created row: null when the field is absent.
StoredLimit(body) ==
    IF Len(body.limitPrice) = 0 THEN NoLimit ELSE body.limitPrice[1]

\* 202: createOrder, addOrderToQueue.
SubmitOrder(body) ==
    /\ \E o \in OrderIds : orders[o].status = "absent"
    /\ Accepted(body)
    /\ LET o == NextOrderId
       IN  /\ orders' = [orders EXCEPT ![o] =
                 [NoOrder EXCEPT !.status = "pending", !.type = body.type,
                                 !.tokenIn = body.tokenIn,
                                 !.tokenOut = body.tokenOut,
                                 !.amountIn = body.amountIn,
                                 !.limitPrice = StoredLimit(body)]]
           /\ job' = [job EXCEPT ![o] = [NoJob EXCEPT !.state = "waiting"]]
           /\ waitq' = Append(waitq, o)
    /\ api' = [api EXCEPT !.request = body, !.reply = 202, !.accepted = @ + 1]
    /\ UNCHANGED <<run, broadcast, runs>>
    /\ UNCHANGED <<sched, router, ws>>

\* 400: the body is refused before createOrder.
RejectOrder(body) ==
    /\ ~Accepted(body)
    /\ api' = [api EXCEPT !.request = body, !.reply = 400]
    /\ UNCHANGED <<orderVars, sched, router, ws>>

(***************************************************************************)
(* Worker (setupOrderWorker) and processLimitOrder, one action per stretch *)
(* of code between two suspension points.                                  *)
(***************************************************************************)
ActiveJobs == {o \in OrderIds : job[o].state = "active"}

\* Faulty variant: the ceiling off by one.
HasSlotOffByOne(nActive) == nActive <= Concurrency

\* Faulty variant: a worker that never has a slot.
HasSlotNever(nActive) == nActive < 0

\* The worker option concurrency: a job starts only below the ceiling.
HasSlot(nActive) == nActive < Concurrency

WorkerHasSlot == HasSlot(Cardinality(ActiveJobs))

\* Faulty variant: the counter also counts the pick-up itself.
incrementAttemptsTwice(attempts) == attempts + 2

\* data: { attempts: { increment: 1 } }
incrementAttempts(attempts) == attempts + 1

\* Faulty variant: the job taken stays in the wait list.
DequeuePeek(q) == q

\* BullMQ moves the job from the wait list to active in one step, under the
\* job's lock: no other worker finds it there.
Dequeue(q) == Tail(q)

\* The worker takes the head of the wait list, reads the order, increments
\* its attempts and enters processLimitOrder, which emits `routing`.
StartJob(o) ==
    /\ waitq # <<>>
    /\ o = Head(waitq)
    /\ WorkerHasSlot
    /\ waitq' = Dequeue(waitq)
    /\ job' = [job EXCEPT ![o].state = "active"]
    /\ orders' = [orders EXCEPT ![o].attempts = incrementAttempts(@)]
    /\ run' = [run EXCEPT ![o] =
          [IdleRun EXCEPT !.pc = "route", !.limitPrice = orders[o].limitPrice,
                          !.mark = Len(broadcast[o])]]
    /\ emitStatus(o, Event("routing", "", 0, "", NoReason))
    /\ UNCHANGED runs
    /\ UNCHANGED <<sched, router, ws, api>>

\* Faulty variant: the retry asks for the order's own pair and amount.
RetryArgsOfOrder(order) ==
    [tokenIn |-> order.tokenIn, tokenOut |-> order.tokenOut,
     amountIn |-> order.amountIn]

\* The arguments of the first routeOrder call of a run.
OrderArgs(order) ==
    [tokenIn |-> order.tokenIn, tokenOut |-> order.tokenOut,
     amountIn |-> order.amountIn]

\* The arguments of the routeOrder call of a gate retry.
RetryArgs(order) ==
    [tokenIn |-> "SOL", tokenOut |-> "USDC", amountIn |-> RetryAmountIn]

\* routeOrder returns: emit limit_check, first attempt of the gate.
RouteDone(o, pr, pm) ==
    /\ run[o].pc = "route"
    /\ LET routeResult == routeOrder(getRaydiumQuote(pr), getMeteorQuote(pm))
           r == [run[o] EXCEPT !.routeResult = routeResult, !.routeCalls = @ + 1,
                               !.lastDex = routeResult.selectedDex,
                               !.firstArgs = OrderArgs(orders[o])]
       IN  GateAttempt(o, r, routeResult.effectivePrice, 1,
              <<Event("limit_check", routeResult.selectedDex,
                      routeResult.effectivePrice, "", NoReason)>>)
    /\ UNCHANGED <<orders, job, waitq, runs>>
    /\ UNCHANGED <<sched, router, ws, api>>

\* The sleep of retryDelayMs ends, routeOrder is called again and the gate
\* recurses with attempt + 1.
GateRetry(o, pr, pm) ==
    /\ run[o].pc = "gateSleep"
    /\ LET newRoute == routeOrder(getRaydiumQuote(pr), getMeteorQuote(pm))
           r == [run[o] EXCEPT !.routeCalls = @ + 1,
                               !.lastDex = newRoute.selectedDex,
                               !.retryArgs = RetryArgs(orders[o])]
       IN  GateAttempt(o, r, newRoute.effectivePrice, run[o].attempt + 1, <<>>)
    /\ UNCHANGED <<orders, job, waitq, runs>>
    /\ UNCHANGED <<sched, router, ws, api>>

\* The building delay ends: emit `submitted`, call executeSwap.
BuildDone(o) ==
    /\ run[o].pc = "building"
    /\ run' = [run EXCEPT ![o].pc = "swap", ![o].swapCalls = @ + 1]
    /\ emitStatus(o, Event("submitted", "", 0, "", NoReason))
    /\ UNCHANGED <<orders, job, waitq, runs>>
    /\ UNCHANGED <<sched, router, ws, api>>

\* executeSwap returns: emit `confirmed`.
SwapDone(o, executedPrice) ==
    /\ run[o].pc = "swap"
    /\ run' = [run EXCEPT ![o].pc = "persistConfirmed",
                          ![o].swapPrice = executedPrice, ![o].swapTx = "tx"]
    /\ emitStatus(o, Event("confirmed", run[o].routeResult.selectedDex,
                           executedPrice, "tx", NoReason))
    /\ UNCHANGED <<orders, job, waitq, runs>>
    /\ UNCHANGED <<sched, router, ws, api>>

\* Faulty variant: the quoted price is stored as the executed price.
ConfirmedDataQuoted(r) ==
    [dex |-> r.routeResult.selectedDex, executedPrice |-> r.currentPrice,
     txHash |-> r.swapTx]

\* The data of updateOrderStatus(order.id, 'confirmed', {...}).
ConfirmedData(r) ==
    [dex |-> r.routeResult.selectedDex, executedPrice |-> r.swapPrice,
     txHash |-> r.swapTx]

\* The OrderHistory row updateOrderStatus adds after it has updated the order:
\* previousStatus is the status getOrderById returns then, `updated` being the
\* order row as the update left it.
HistoryRow(updated, status) ==
    [previousStatus |-> updated.status, newStatus |-> status]

\* updateOrderStatus(confirmed); processLimitOrder returns success and the
\* job completes.
PersistConfirmed(o) ==
    /\ run[o].pc = "persistConfirmed"
    /\ LET updated == [orders[o] EXCEPT
                          !.status = "confirmed",
                          !.dex = ConfirmedData(run[o]).dex,
                          !.executedPrice = ConfirmedData(run[o]).executedPrice,
                          !.txHash = ConfirmedData(run[o]).txHash]
       IN  orders' = [orders EXCEPT ![o] =
              [updated EXCEPT !.history =
                  Append(@, HistoryRow(updated, "confirmed"))]]
    /\ run' = [run EXCEPT ![o].pc = "done"]
    /\ job' = [job EXCEPT ![o].state = "completed"]
    /\ runs' = [runs EXCEPT ![o] = Append(@, "confirmed")]
    /\ UNCHANGED <<waitq, broadcast>>
    /\ UNCHANGED <<sched, router, ws, api>>

\* The built-in exponential backoff: 2 ^ (attemptsMade - 1) * delay.
Backoff(attemptsMade) == (2 ^ (attemptsMade - 1)) * BackoffDelay

\* What BullMQ does with a job whose processor threw: while attemptsMade is
\* below attempts the job is delayed by the backoff, else it has failed.
\* `delays` keeps the delays the job has been given.
JobAfterFailure(j) ==
    IF j.attemptsMade + 1 < JobAttempts
    THEN [j EXCEPT !.state = "delayed", !.attemptsMade = @ + 1,
                   !.delays = Append(@, Backoff(j.attemptsMade + 1))]
    ELSE [j EXCEPT !.state = "failed", !.attemptsMade = @ + 1]

\* updateOrderStatus(failed); processLimitOrder returns {success: false}, the
\* processor throws and BullMQ schedules a retry or fails the job.
PersistFailed(o) ==
    /\ run[o].pc = "persistFailed"
    /\ LET updated == [orders[o] EXCEPT !.status = "failed",
                                        !.errorReason = run[o].error]
       IN  orders' = [orders EXCEPT ![o] =
              [updated EXCEPT !.history =
                  Append(@, HistoryRow(updated, "failed"))]]
    /\ run' = [run EXCEPT ![o].pc = "done"]
    /\ job' = [job EXCEPT ![o] = JobAfterFailure(@)]
    /\ runs' = [runs EXCEPT ![o] = Append(@, run[o].error.kind)]
    /\ UNCHANGED <<waitq, broadcast>>
    /\ UNCHANGED <<sched, router, ws, api>>

\* The rejection of a record-store call (prisma) inside updateOrderStatus.
StoreError == [kind |-> "StoreError", attempts |-> 0, best |-> 0, limit |-> 0]

\* updateOrderStatus(confirmed) rejects, before the order row is written or
\* (`written`) after it, while the history row is added.  The catch of
\* processLimitOrder emits `failed` with the message.
UpdateConfirmedThrows(o, written) ==
    /\ run[o].pc = "persistConfirmed"
    /\ orders' = IF written
                 THEN [orders EXCEPT ![o].status = "confirmed",
                                     ![o].dex = ConfirmedData(run[o]).dex,
                                     ![o].executedPrice =
                                         ConfirmedData(run[o]).executedPrice,
                                     ![o].txHash = ConfirmedData(run[o]).txHash]
                 ELSE orders
    /\ LET err == errorMessage(StoreError)
       IN  /\ run' = [run EXCEPT ![o].pc = "persistFailed", ![o].error = err]
           /\ emitStatus(o, Event("failed", "", 0, "", err))
    /\ UNCHANGED <<job, waitq, runs>>
    /\ UNCHANGED <<sched, router, ws, api>>

\* updateOrderStatus(failed), called in the catch of processLimitOrder,
\* rejects: the rejection leaves processLimitOrder, the processor rethrows it
\* and BullMQ schedules a retry or fails the job.
UpdateFailedThrows(o, written) ==
    /\ run[o].pc = "persistFailed"
    /\ orders' = IF written
                 THEN [orders EXCEPT ![o].status = "failed",
                                     ![o].errorReason = run[o].error]
                 ELSE orders
    /\ run' = [run EXCEPT ![o].pc = "done"]
    /\ job' = [job EXCEPT ![o] = JobAfterFailure(@)]
    /\ runs' = [runs EXCEPT ![o] = Append(@, "thrown")]
    /\ UNCHANGED <<waitq, broadcast>>
    /\ UNCHANGED <<sched, router, ws, api>>

\* The backoff delay of a failed job ends: it re-enters the wait list.
RetryJob(o) ==
    /\ job[o].state = "delayed"
    /\ job' = [job EXCEPT ![o].state = "waiting"]
    /\ waitq' = Append(waitq, o)
    /\ UNCHANGED <<orders, run, broadcast, runs>>
    /\ UNCHANGED <<sched, router, ws, api>>

InitOrders ==
    /\ orders = [o \in OrderIds |-> NoOrder]
    /\ job = [o \in OrderIds |-> NoJob]
    /\ waitq = <<>>
    /\ run = [o \in OrderIds |-> IdleRun]
    /\ broadcast = [o \in OrderIds |-> <<>>]
    /\ runs = [o \in OrderIds |-> <<>>]

NextOrders ==
    \/ \E body \in Requests : SubmitOrder(body)
    \/ \E o \in OrderIds : StartJob(o)
    \/ \E o \in OrderIds, pr \in RaydiumPrices, pm \in MeteoraPrices :
          RouteDone(o, pr, pm)
    \/ \E o \in OrderIds, pr \in RaydiumPrices, pm \in MeteoraPrices :
          GateRetry(o, pr, pm)
    \/ \E o \in OrderIds : BuildDone(o)
    \/ \E o \in OrderIds, ep \in ExecPrices : SwapDone(o, ep)
    \/ \E o \in OrderIds : PersistConfirmed(o)
    \/ \E o \in OrderIds : PersistFailed(o)
    \/ \E o \in OrderIds : RetryJob(o)

(***************************************************************************)
(* The queue at the granularity of getQueueStats: how many jobs are        *)
(* waiting, active, delayed, completed and failed.  Jobs are counted by    *)
(* attemptsMade, which is all BullMQ's retry decision reads.               *)
(***************************************************************************)
Attempts == 0..(JobAttempts - 1)

IdleSched ==
    [unsubmitted |-> 0, waiting |-> [a \in Attempts |-> 0],
     active |-> [a \in Attempts |-> 0], delayed |-> [a \in Attempts |-> 0],
     completed |-> 0, failed |-> 0]

RECURSIVE SumUpTo(_, _)
SumUpTo(f, a) == IF a < 0 THEN 0 ELSE f[a] + SumUpTo(f, a - 1)

Total(f) == SumUpTo(f, JobAttempts - 1)

\* addOrderToQueue
SchedAdd ==
    /\ sched.unsubmitted > 0
    /\ sched' = [sched EXCEPT !.unsubmitted = @ - 1, !.waiting[0] = @ + 1]
    /\ UNCHANGED <<orderVars, router, ws, api>>

\* the worker takes a waiting job
SchedStart(a) ==
    /\ sched.waiting[a] > 0
    /\ HasSlot(Total(sched.active))
    /\ sched' = [sched EXCEPT !.waiting[a] = @ - 1, !.active[a] = @ + 1]
    /\ UNCHANGED <<orderVars, router, ws, api>>

\* the processor returns
SchedComplete(a) ==
    /\ sched.active[a] > 0
    /\ sched' = [sched EXCEPT !.active[a] = @ - 1, !.completed = @ + 1]
    /\ UNCHANGED <<orderVars, router, ws, api>>

\* the processor throws
SchedFail(a) ==
    /\ sched.active[a] > 0
    /\ LET j == JobAfterFailure([NoJob EXCEPT !.state = "active", !.attemptsMade = a])
       IN  IF j.state = "delayed"
           THEN sched' = [sched EXCEPT !.active[a] = @ - 1,
                                       !.delayed[j.attemptsMade] = @ + 1]
           ELSE sched' = [sched EXCEPT !.active[a] = @ - 1, !.failed = @ + 1]
    /\ UNCHANGED <<orderVars, router, ws, api>>

\* the backoff delay of a failed job ends
SchedPromote(a) ==
    /\ sched.delayed[a] > 0
    /\ sched' = [sched EXCEPT !.delayed[a] = @ - 1, !.waiting[a] = @ + 1]
    /\ UNCHANGED <<orderVars, router, ws, api>>

InitSched == sched = [IdleSched EXCEPT !.unsubmitted = NumJobs]

NextSched ==
    \/ SchedAdd
    \/ \E a \in Attempts : SchedStart(a)
    \/ \E a \in Attempts : SchedComplete(a)
    \/ \E a \in Attempts : SchedFail(a)
    \/ \E a \in Attempts : SchedPromote(a)

(***************************************************************************)
(* The router's pure functions on a grid of quotes and limit prices.       *)
(***************************************************************************)
Grid == BaseK..(BaseK + PriceSteps)

RouterRaydiumPrices == {998 * k : k \in Grid}
RouterMeteoraPrices == {997 * k : k \in Grid}
RouterLimitPrices == {997 * 998 * k : k \in Grid}

IdleRouter ==
    [phase |-> "off", raydiumQuote |-> getRaydiumQuote(0),
     meteoraQuote |-> getMeteorQuote(0), limitPrice |-> NoLimit,
     result |-> NoRoute, satisfied |-> FALSE]

InitRouter ==
    \E pr \in RouterRaydiumPrices, pm \in RouterMeteoraPrices,
       l \in RouterLimitPrices :
        router = [IdleRouter EXCEPT !.phase = "quoted",
                                    !.raydiumQuote = getRaydiumQuote(pr),
                                    !.meteoraQuote = getMeteorQuote(pm),
                                    !.limitPrice = l]

RouterRoute ==
    /\ router.phase = "quoted"
    /\ router' = [router EXCEPT !.phase = "routed",
                      !.result = routeOrder(router.raydiumQuote,
                                            router.meteoraQuote)]
    /\ UNCHANGED <<orderVars, sched, ws, api>>

RouterCheck ==
    /\ router.phase = "routed"
    /\ router' = [router EXCEPT !.phase = "checked",
                      !.satisfied = checkLimitCondition(
                          router.result.effectivePrice, router.limitPrice)]
    /\ UNCHANGED <<orderVars, sched, ws, api>>

NextRouter == RouterRoute \/ RouterCheck

(***************************************************************************)
(* WebSocketManager and the /api/orders/ws handler.  connections maps an   *)
(* order id to its Set of sockets, kept here in insertion order, which is  *)
(* the order Set.forEach visits them in.  The map's keys are its DOMAIN.   *)
(* The client names the order id in its message; nothing checks it against *)
(* the record store.                                                       *)
(***************************************************************************)
Sockets == 1..NumSockets

WsOrderIds == 1..NumWsOrders

Range(seq) == {seq[i] : i \in DOMAIN seq}

NoFanout == [orderId |-> 0, seq |-> 0, next |-> 0]

IdleWs ==
    [connections |-> [o \in {} |-> <<>>],
     readyState |-> [s \in Sockets |-> "OPEN"],
     inbox |-> [s \in Sockets |-> <<>>],
     fanout |-> NoFanout,
     \* instrumentation: the emit calls, the sends, the subscribe messages,
     \* and per order the sockets subscribed and not unsubscribed since
     emits |-> <<>>, sent |-> <<>>, subscribes |-> 0,
     members |-> [o \in WsOrderIds |-> {}]]

StatusMessage(orderId, seq) ==
    [type |-> "status", orderId |-> orderId, seq |-> seq]

SubscribedMessage(orderId) ==
    [type |-> "subscribed", orderId |-> orderId, seq |-> 0]

\* Faulty variant: the newest frame overtakes the ones before it.
sendFront(inbox, payload) == <<payload>> \o inbox

\* socket.send: frames of one connection arrive in the order they were sent.
send(inbox, payload) == Append(inbox, payload)

\* Faulty variant: emit sends whatever the socket's state.
IsOpenAlways(readyState) == TRUE

\* emit's test socket.readyState === WebSocket.OPEN
IsOpen(readyState) == readyState = "OPEN"

\* Faulty variant: a handler runs in the middle of emit's forEach.
EventLoopFreeAlways(fanout) == TRUE

\* emit is synchronous: no other handler runs before its forEach has ended.
EventLoopFree(fanout) == fanout = NoFanout

\* Faulty variant: an Array instead of a Set, a socket can be held twice.
registerAppend(connections, orderId, socket) ==
    LET c == IF orderId \in DOMAIN connections THEN connections
             ELSE connections @@ (orderId :> <<>>)
    IN  [c EXCEPT ![orderId] = Append(@, socket)]

register(connections, orderId, socket) ==
    LET c == IF orderId \in DOMAIN connections THEN connections
             ELSE connections @@ (orderId :> <<>>)
    IN  [c EXCEPT ![orderId] =
            IF socket \in Range(@) THEN @ ELSE Append(@, socket)]

\* Faulty variant: the socket is dropped from every order, as on a close.
unregisterEverywhere(connections, orderId, socket) ==
    LET kept == [k \in DOMAIN connections |->
                    SelectSeq(connections[k], LAMBDA x : x # socket)]
    IN  [k \in {j \in DOMAIN kept : kept[j] # <<>>} |-> kept[k]]

unregister(connections, orderId, socket) ==
    IF orderId \notin DOMAIN connections THEN connections
    ELSE LET sockets == SelectSeq(connections[orderId],
                                  LAMBDA x : x # socket)
         IN  IF Len(sockets) = 0
             THEN [k \in DOMAIN connections \ {orderId} |-> connections[k]]
             ELSE [connections EXCEPT ![orderId] = sockets]

getConnectionCount(connections, orderId) ==
    IF orderId \in DOMAIN connections THEN Len(connections[orderId]) ELSE 0

SocketsOf(connections, orderId) ==
    IF orderId \in DOMAIN connections THEN connections[orderId] ELSE <<>>

\* message {action: 'subscribe', orderId}: register, then the confirmation
Subscribe(socket, orderId) ==
    /\ EventLoopFree(ws.fanout)
    /\ ws.readyState[socket] = "OPEN"
    /\ ws.subscribes < MaxSubscribes
    /\ ws' = [ws EXCEPT
          !.connections = register(@, orderId, socket),
          !.inbox[socket] = send(@, SubscribedMessage(orderId)),
          !.subscribes = @ + 1,
          !.members[orderId] = @ \cup {socket}]
    /\ UNCHANGED <<orderVars, sched, router, api>>

\* message {action: 'unsubscribe', orderId}
Unsubscribe(socket, orderId) ==
    /\ EventLoopFree(ws.fanout)
    /\ ws.readyState[socket] = "OPEN"
    /\ ws' = [ws EXCEPT !.connections = unregister(@, orderId, socket),
                         !.members[orderId] = @ \ {socket}]
    /\ UNCHANGED <<orderVars, sched, router, api>>

\* a closing handshake starts: the socket is no longer OPEN
SocketClosing(socket) ==
    /\ EventLoopFree(ws.fanout)
    /\ ws.readyState[socket] = "OPEN"
    /\ ws' = [ws EXCEPT !.readyState[socket] = "CLOSING"]
    /\ UNCHANGED <<orderVars, sched, router, api>>

\* the connection ends: the 'close' handler writes a log line, nothing else
SocketClose(socket) ==
    /\ EventLoopFree(ws.fanout)
    /\ ws.readyState[socket] # "CLOSED"
    /\ ws' = [ws EXCEPT !.readyState[socket] = "CLOSED"]
    /\ UNCHANGED <<orderVars, sched, router, api>>

\* emit is called: without an entry for the order it returns at once
EmitStart(orderId) ==
    /\ EventLoopFree(ws.fanout)
    /\ Len(ws.emits) < MaxEmits
    /\ LET seq == Len(ws.emits) + 1
           call == [orderId |-> orderId,
                    registered |-> Range(SocketsOf(ws.connections, orderId)),
                    open |-> {s \in Sockets : ws.readyState[s] = "OPEN"}]
       IN  ws' = [ws EXCEPT
              !.emits = Append(@, call),
              !.fanout = IF orderId \in DOMAIN ws.connections
                         THEN [orderId |-> orderId, seq |-> seq, next |-> 1]
                         ELSE NoFanout]
    /\ UNCHANGED <<orderVars, sched, router, api>>

\* Faulty variant: a socket found not OPEN is dropped from the order's set.
EmitSendPruning ==
    /\ ws.fanout # NoFanout
    /\ ws.fanout.next <= Len(SocketsOf(ws.connections, ws.fanout.orderId))
    /\ LET socket == ws.connections[ws.fanout.orderId][ws.fanout.next]
           payload == StatusMessage(ws.fanout.orderId, ws.fanout.seq)
       IN  IF IsOpen(ws.readyState[socket])
           THEN ws' = [ws EXCEPT
                   !.inbox[socket] = send(@, payload),
                   !.sent = Append(@, [seq |-> ws.fanout.seq,
                                       socket |-> socket]),
                   !.fanout.next = @ + 1]
           ELSE ws' = [ws EXCEPT
                   !.connections = unregister(@, ws.fanout.orderId, socket)]
    /\ UNCHANGED <<orderVars, sched, router, api>>

\* one turn of sockets.forEach
EmitSend ==
    /\ ws.fanout # NoFanout
    /\ ws.fanout.next <= Len(SocketsOf(ws.connections, ws.fanout.orderId))
    /\ LET socket == ws.connections[ws.fanout.orderId][ws.fanout.next]
           payload == StatusMessage(ws.fanout.orderId, ws.fanout.seq)
       IN  IF IsOpen(ws.readyState[socket])
           THEN ws' = [ws EXCEPT
                   !.inbox[socket] = send(@, payload),
                   !.sent = Append(@, [seq |-> ws.fanout.seq,
                                       socket |-> socket]),
                   !.fanout.next = @ + 1]
           ELSE ws' = [ws EXCEPT !.fanout.next = @ + 1]
    /\ UNCHANGED <<orderVars, sched, router, api>>

\* forEach has visited every socket: emit logs and returns
EmitEnd ==
    /\ ws.fanout # NoFanout
    /\ ws.fanout.next > Len(SocketsOf(ws.connections, ws.fanout.orderId))
    /\ ws' = [ws EXCEPT !.fanout = NoFanout]
    /\ UNCHANGED <<orderVars, sched, router, api>>

InitWs == ws = IdleWs

NextWs ==
    \/ \E s \in Sockets, o \in WsOrderIds : Subscribe(s, o)
    \/ \E s \in Sockets, o \in WsOrderIds : Unsubscribe(s, o)
    \/ \E s \in Sockets : SocketClosing(s)
    \/ \E s \in Sockets : SocketClose(s)
    \/ \E o \in WsOrderIds : EmitStart(o)
    \/ EmitSend
    \/ EmitEnd

(***************************************************************************)
(* GET /api/stats: getStatistics sends five count queries at once          *)
(* (Promise.all) and awaits them all.  They run outside any transaction,   *)
(* so each is answered from the table as it is when the store serves it,   *)
(* in any order, and createOrder or updateOrderStatus of a request or a    *)
(* run may commit between two of them.                                     *)
(***************************************************************************)
StatsQueries == {"pending", "routing", "confirmed", "failed", "total"}

\* prisma.order.count({ where: { status } }), prisma.order.count() for total
orderCount(where) ==
    Cardinality({o \in OrderIds :
                    /\ orders[o].status # "absent"
                    /\ where = "total" \/ orders[o].status = where})

\* the request handler calls getStatistics
StatsStart ==
    /\ api.stats.pc = "idle"
    /\ api' = [api EXCEPT !.stats.pc = "counting"]
    /\ UNCHANGED <<orderVars, sched, router, ws>>

\* the store answers one of the count queries
StatsCount(where) ==
    /\ api.stats.pc = "counting"
    /\ where \notin DOMAIN api.stats.counts
    /\ api' = [api EXCEPT !.stats.counts = @ @@ (where :> orderCount(where))]
    /\ UNCHANGED <<orderVars, sched, router, ws>>

\* Promise.all resolves: { pending, routing, confirmed, failed, total }
StatsReturn ==
    /\ api.stats.pc = "counting"
    /\ DOMAIN api.stats.counts = StatsQueries
    /\ api' = [api EXCEPT !.stats.pc = "returned"]
    /\ UNCHANGED <<orderVars, sched, router, ws>>

NextStats ==
    \/ StatsStart
    \/ \E where \in StatsQueries : StatsCount(where)
    \/ StatsReturn

(***************************************************************************)
(* Specifications.                                                         *)
(***************************************************************************)
Init == InitOrders /\ sched = IdleSched /\ router = IdleRouter /\ ws = IdleWs /\ api = IdleApi

Next == NextOrders

Spec == Init /\ [][Next]_vars

InitS == InitSched /\ InitOrders /\ router = IdleRouter /\ ws = IdleWs /\ api = IdleApi

NextS == NextSched

SpecSched == InitS /\ [][NextS]_vars

\* Spec with the scheduling BullMQ and the event loop provide: a worker with
\* a free slot takes the head of the wait list, every awaited call settles
\* and every timer (the gate's wait, the backoff delay) fires.
RunStep(o) ==
    \/ StartJob(o)
    \/ \E pr \in RaydiumPrices, pm \in MeteoraPrices : RouteDone(o, pr, pm)
    \/ \E pr \in RaydiumPrices, pm \in MeteoraPrices : GateRetry(o, pr, pm)
    \/ BuildDone(o)
    \/ \E ep \in ExecPrices : SwapDone(o, ep)
    \/ PersistConfirmed(o)
    \/ PersistFailed(o)
    \/ RetryJob(o)

Fairness == \A o \in OrderIds : WF_vars(RunStep(o))

FairSpec == Init /\ [][Next]_vars /\ Fairness

InitR == InitRouter /\ InitOrders /\ sched = IdleSched /\ ws = IdleWs /\ api = IdleApi

NextR == NextRouter

SpecRouter == InitR /\ [][NextR]_vars

InitW == InitWs /\ InitOrders /\ sched = IdleSched /\ router = IdleRouter /\ api = IdleApi

NextW == NextWs

SpecWs == InitW /\ [][NextW]_vars

\* Spec with a record store whose calls in updateOrderStatus can reject.
NextStore ==
    \/ NextOrders
    \/ \E o \in OrderIds, written \in BOOLEAN : UpdateConfirmedThrows(o, written)
    \/ \E o \in OrderIds, written \in BOOLEAN : UpdateFailedThrows(o, written)

SpecStore == Init /\ [][NextStore]_vars

\* The orders' runs with a GET /api/stats request served meanwhile.
NextT == NextOrders \/ NextStats

SpecStats == Init /\ [][NextT]_vars

\* The submit route alone, on every request body.
InitA == InitOrders /\ sched = IdleSched /\ router = IdleRouter /\ ws = IdleWs /\ api = IdleApi

NextA ==
    \/ \E body \in Requests : SubmitOrder(body)
    \/ \E body \in Requests : RejectOrder(body)

SpecApi == InitA /\ [][NextA]_vars

(***************************************************************************)
(* Properties.                                                             *)
(***************************************************************************)
\* The events emitted by the current (or last) run of order o.
RunEvents(o) == SubSeq(broadcast[o], run[o].mark + 1, Len(broadcast[o]))

CountStatus(seq, st) == Cardinality({i \in DOMAIN seq : seq[i].status = st})

HasStatus(seq, st) == \E i \in DOMAIN seq : seq[i].status = st

\* The gate of o's run has returned.
GateOver(o) ==
    run[o].pc \in {"building", "swap", "persistConfirmed", "persistFailed", "done"}

\* C1: under SpecSched, with more jobs submitted than the ceiling, at most
\* Concurrency jobs are active in every reachable state, and every job is
\* accounted for: the ones beyond the ceiling are waiting, delayed or
\* finished, never active.
C1_AtMostConcurrencyActive ==
    /\ Total(sched.active) <= Concurrency
    /\ sched.unsubmitted + Total(sched.waiting) + Total(sched.active)
          + Total(sched.delayed) + sched.completed + sched.failed = NumJobs

\* C1 witness: all jobs submitted, the ceiling reached, the rest waiting.
C1_Witness ==
    /\ NumJobs > Concurrency
    /\ sched.unsubmitted = 0
    /\ Total(sched.active) = Concurrency
    /\ Total(sched.waiting) = NumJobs - Concurrency

\* C2 (as claimed): once a run of an order has ended LimitNotReached (or with
\* a failed execution), its job is not waiting, delayed or active again.
C2_NoRerunAfterBusinessFailure ==
    \A o \in OrderIds :
        (\E i \in DOMAIN runs[o] :
            runs[o][i] \in {"LimitNotReached", "ExecutionFailed"})
        => job[o].state \notin {"waiting", "delayed", "active"}

\* C3 (as claimed): a persisted status of confirmed or failed never changes.
C3_TerminalStatusFinal ==
    [][\A o \in OrderIds :
          orders[o].status \in {"confirmed", "failed"}
          => orders'[o].status = orders[o].status]_vars

\* C4 (as claimed): the statuses broadcast for an order over its whole life
\* follow pending, routing, limit_check+, building, submitted,
\* (confirmed | failed): stages never go back, only limit_check repeats,
\* nothing follows confirmed or failed, and a finished sequence holds a
\* limit_check.
StatusRank(st) ==
    CASE st = "pending" -> 0
      [] st = "routing" -> 1
      [] st = "limit_check" -> 2
      [] st = "building" -> 3
      [] st = "submitted" -> 4
      [] st \in {"confirmed", "failed"} -> 5

LifecycleOrdered(seq) ==
    /\ \A i, j \in DOMAIN seq :
          i < j =>
             /\ StatusRank(seq[i].status) <= StatusRank(seq[j].status)
             /\ StatusRank(seq[i].status) = StatusRank(seq[j].status)
                   => seq[i].status = "limit_check"
             /\ StatusRank(seq[i].status) # 5
    /\ (HasStatus(seq, "confirmed") \/ HasStatus(seq, "failed"))
          => HasStatus(seq, "limit_check")

C4_BroadcastFollowsLifecycle ==
    \A o \in OrderIds : LifecycleOrdered(broadcast[o])

\* C5 (as claimed): in one run, as many limit_check events are broadcast as
\* the gate has evaluated the limit condition.
C5_LimitCheckPerAttempt ==
    \A o \in OrderIds :
        run[o].pc # "idle"
        => CountStatus(RunEvents(o), "limit_check") = run[o].evals

\* C6: in every reachable state, if the run of an order has called
\* executeSwap, or has broadcast building, submitted or confirmed, then some
\* effective price evaluated earlier in that run was <= the order's
\* limitPrice.
C6_SwapOnlyAfterLimitMet ==
    \A o \in OrderIds :
        (\/ run[o].swapCalls > 0
         \/ run[o].pc \in {"building", "swap", "persistConfirmed"}
         \/ \E st \in {"building", "submitted", "confirmed"} :
               HasStatus(RunEvents(o), st))
        => run[o].anyOk

\* C6 witness: a run that called executeSwap after the gate passed on a
\* retry.
C6_Witness ==
    \E o \in OrderIds :
        /\ run[o].swapCalls > 0
        /\ run[o].evals = 2
        /\ run[o].anyOk
        /\ run[o].routeResult.effectivePrice > run[o].limitPrice

\* C7: whenever the first routed effective price of a run is <= limitPrice,
\* the gate has passed on attempt 1 with no wait and no second router call,
\* and the run has gone on to building.
C7_FirstPriceOkPassesAtOnce ==
    \A o \in OrderIds :
        (/\ run[o].routeCalls >= 1
         /\ run[o].routeResult.effectivePrice <= run[o].limitPrice)
        => /\ run[o].attempt = 1
           /\ run[o].evals = 1
           /\ run[o].waits = <<>>
           /\ run[o].routeCalls = 1
           /\ run[o].pc \in {"building", "swap", "persistConfirmed", "done"}
           /\ HasStatus(RunEvents(o), "building")

\* C7 witness: the first effective price equals the limit and the run is at
\* building.
C7_Witness ==
    \E o \in OrderIds :
        /\ run[o].pc = "building"
        /\ run[o].routeCalls = 1
        /\ run[o].routeResult.effectivePrice = run[o].limitPrice

\* C8: whenever the gate of a run has returned and every effective price it
\* evaluated exceeded limitPrice, it evaluated the condition exactly
\* maxRetries times on maxRetries router results with maxRetries - 1 waits of
\* retryDelayMs each, and it failed, for an order that has a limit price with
\* a reason that says 3 attempts; once the run is over the reason is persisted
\* with status failed.
C8_ExhaustsExactlyMaxAttempts ==
    \A o \in OrderIds :
        (GateOver(o) /\ ~run[o].anyOk)
        => /\ run[o].evals = maxRetries
           /\ run[o].routeCalls = maxRetries
           /\ Len(run[o].waits) = maxRetries - 1
           /\ \A i \in DOMAIN run[o].waits : run[o].waits[i] = retryDelayMs
           /\ run[o].pc \in {"persistFailed", "done"}
           /\ run[o].limitPrice # NoLimit
                 => /\ run[o].error.kind = "LimitNotReached"
                    /\ run[o].error.attempts = 3
           /\ broadcast[o][Len(broadcast[o])].status = "failed"
           /\ broadcast[o][Len(broadcast[o])].error = run[o].error
           /\ run[o].pc = "done"
                 => /\ orders[o].status = "failed"
                    /\ orders[o].errorReason = run[o].error

\* C8 witness: a finished run of an order with a real limit price in which
\* all three prices exceeded it.
C8_Witness ==
    \E o \in OrderIds :
        /\ run[o].pc = "done"
        /\ ~run[o].anyOk
        /\ run[o].limitPrice # NoLimit
        /\ run[o].evals = 3
        /\ orders[o].status = "failed"

\* C9: under SpecRouter, the answer of checkLimitCondition(bestPrice,
\* limitPrice) is true exactly when bestPrice <= limitPrice.
C9_LimitConditionIsLessOrEqual ==
    router.phase = "checked"
    => (router.satisfied <=> router.result.effectivePrice <= router.limitPrice)

\* C9 witness: the condition was evaluated on equal prices and is satisfied.
C9_Witness ==
    /\ router.phase = "checked"
    /\ router.result.effectivePrice = router.limitPrice
    /\ router.satisfied

\* C10: under SpecRouter, routeOrder returns the venue whose effective price
\* price * (1 - fee) is the minimum of the two, and the returned price, fee
\* and effectivePrice are that venue's, with effectivePrice = price * (1 - fee).
C10_RouteSelectsMinimum ==
    router.phase \in {"routed", "checked"}
    => LET rq == router.raydiumQuote
           mq == router.meteoraQuote
           res == router.result
           rEff == rq.price * (FeeScale - rq.fee)
           mEff == mq.price * (FeeScale - mq.fee)
           sel == IF res.selectedDex = "RAYDIUM" THEN rq ELSE mq
       IN  /\ res.selectedDex \in {"RAYDIUM", "METEORA"}
           /\ res.selectedDex = sel.dex
           /\ res.price = sel.price
           /\ res.fee = sel.fee
           /\ res.effectivePrice = res.price * (FeeScale - res.fee)
           /\ res.effectivePrice <= rEff
           /\ res.effectivePrice <= mEff

\* C10 witness: both venues have won a routing with a strictly lower
\* effective price; here Raydium, whose fee is the higher one.
C10_Witness ==
    /\ router.phase = "routed"
    /\ router.result.selectedDex = "RAYDIUM"
    /\ router.result.effectivePrice
          < router.meteoraQuote.price * (FeeScale - router.meteoraQuote.fee)

\* C11: under SpecRouter, whenever the two effective prices are equal,
\* routeOrder has selected METEORA: the same venue for every tie, decided by
\* the two quotes alone.
C11_TieGoesToMeteora ==
    (/\ router.phase \in {"routed", "checked"}
     /\ router.raydiumQuote.price * (FeeScale - router.raydiumQuote.fee)
           = router.meteoraQuote.price * (FeeScale - router.meteoraQuote.fee))
    => /\ router.result.selectedDex = "METEORA"
       /\ router.result.price = router.meteoraQuote.price
       /\ router.result.fee = router.meteoraQuote.fee

\* C11 witness: a routing of two quotes with equal effective prices.
C11_Witness ==
    /\ router.phase = "routed"
    /\ router.raydiumQuote.price * (FeeScale - router.raydiumQuote.fee)
          = router.meteoraQuote.price * (FeeScale - router.meteoraQuote.fee)
    /\ router.result.selectedDex = "METEORA"

\* C12 (as claimed): the reason of an exhausted gate carries the effective
\* price of the last check.
C12_ReasonCarriesLastPrice ==
    \A o \in OrderIds :
        run[o].error.kind = "LimitNotReached"
        => run[o].error.best = ToFixed2(run[o].currentPrice)

\* C13 (as claimed): the venue given to executeSwap and carried by the
\* confirmed event and the confirmed order is the venue of the routing whose
\* price passed the gate.
C13_VenueOfPassingRoute ==
    \A o \in OrderIds :
        /\ run[o].pc \in {"swap", "persistConfirmed"}
              => run[o].routeResult.selectedDex = run[o].lastDex
        /\ (run[o].pc = "persistConfirmed"
              => broadcast[o][Len(broadcast[o])].dex = run[o].lastDex)
        /\ (run[o].pc = "done" /\ orders[o].status = "confirmed"
              => orders[o].dex = run[o].lastDex)

\* C18: in every reachable state an order persisted as failed has a
\* non-empty errorReason, and every failed event broadcast carries a
\* non-empty error.
C18_FailedHasReason ==
    \A o \in OrderIds :
        /\ orders[o].status = "failed"
              => /\ orders[o].errorReason # NoReason
                 /\ orders[o].errorReason.kind # "none"
        /\ \A i \in DOMAIN broadcast[o] :
              broadcast[o][i].status = "failed"
              => /\ broadcast[o][i].error # NoReason
                 /\ broadcast[o][i].error.kind # "none"

\* C18 witness: an order without a limit price persisted as failed, its
\* failed event broadcast.
C18_Witness ==
    \E o \in OrderIds :
        /\ orders[o].status = "failed"
        /\ orders[o].limitPrice = NoLimit
        /\ HasStatus(broadcast[o], "failed")

\* C19: in every reachable state an order persisted as confirmed has dex,
\* executedPrice and txHash set, equal to those of the confirmed event its
\* run broadcast (the last event of the order).
C19_ConfirmedHasOutcome ==
    \A o \in OrderIds :
        orders[o].status = "confirmed"
        => LET ev == broadcast[o][Len(broadcast[o])]
           IN  /\ orders[o].dex \in {"RAYDIUM", "METEORA"}
               /\ orders[o].executedPrice > 0
               /\ orders[o].txHash # ""
               /\ ev.status = "confirmed"
               /\ orders[o].dex = ev.dex
               /\ orders[o].executedPrice = ev.price
               /\ orders[o].txHash = ev.txHash

\* C19 witness: an order confirmed by a re-run after a failed run.
C19_Witness ==
    \E o \in OrderIds :
        /\ orders[o].status = "confirmed"
        /\ runs[o] = <<"LimitNotReached", "confirmed">>

\* The sockets that received the status message of the seq-th emit call.
Receivers(seq) ==
    {s \in Sockets : \E i \in DOMAIN ws.inbox[s] :
        ws.inbox[s][i] = StatusMessage(ws.emits[seq].orderId, seq)}

\* The emit calls that have returned.
Returned == {n \in DOMAIN ws.emits : ws.fanout.seq # n}

\* C14 (as claimed): once an emit call has returned, and ever after, the
\* sockets that received its event are exactly those registered for the
\* order when it was called.
C14_DeliversToRegistered ==
    \A n \in Returned : Receivers(n) = ws.emits[n].registered

\* C14 (amended): once an emit call has returned, and ever after, the sockets
\* that received its event are exactly those that were registered for the
\* order and OPEN when it was called; a socket registered later never gets it.
C14_DeliversToRegisteredOpen ==
    \A n \in Returned :
        Receivers(n) = ws.emits[n].registered \cap ws.emits[n].open

\* C14 witness: an emit that returned having reached one registered socket
\* and skipped another that was not OPEN, while the socket it reached had
\* registered after an earlier emit for the same order and never got that one.
C14_Witness ==
    \E n \in Returned, m \in Returned, s \in Sockets :
        /\ m < n
        /\ ws.emits[m].orderId = ws.emits[n].orderId
        /\ s \in Receivers(n)
        /\ s \notin ws.emits[m].registered
        /\ s \notin Receivers(m)
        /\ Receivers(m) # {}
        /\ ws.emits[n].registered \ ws.emits[n].open # {}

\* The seq numbers of the status messages of one order in an inbox, in the
\* order of arrival.
RECURSIVE StatusSeqs(_, _)
StatusSeqs(inbox, orderId) ==
    IF inbox = <<>> THEN <<>>
    ELSE LET m == Head(inbox)
         IN  IF m.type = "status" /\ m.orderId = orderId
             THEN <<m.seq>> \o StatusSeqs(Tail(inbox), orderId)
             ELSE StatusSeqs(Tail(inbox), orderId)

\* C15: at every socket the events of one order arrive in the order of the
\* emit calls that published them, whatever other orders' emits, subscribes
\* and unsubscribes come in between.
C15_PublishOrderKept ==
    \A s \in Sockets, o \in WsOrderIds :
        LET seqs == StatusSeqs(ws.inbox[s], o)
        IN  \A i, j \in DOMAIN seqs : i < j => seqs[i] < seqs[j]

\* C15 witness: a socket that stayed registered got two events of one order.
C15_Witness ==
    \E s \in Sockets, o \in WsOrderIds :
        /\ Len(StatusSeqs(ws.inbox[s], o)) = 2
        /\ ws.fanout = NoFanout
        /\ s \in Range(SocketsOf(ws.connections, o))

\* C16 (as claimed): the registry contains only orders with at least one
\* subscriber whose connection has not ended.
C16_OnlyLiveEntries ==
    \A o \in DOMAIN ws.connections :
        /\ getConnectionCount(ws.connections, o) > 0
        /\ \E s \in Range(ws.connections[o]) : ws.readyState[s] # "CLOSED"

\* C17: the sends of one emit call are consecutive among all sends, and while
\* an emit is visiting the sockets of its order the registry entry of that
\* order is the one it was called with.
C17_FanoutAtomic ==
    /\ \A i, j, k \in DOMAIN ws.sent :
          i < j /\ j < k /\ ws.sent[i].seq = ws.sent[k].seq
          => ws.sent[j].seq = ws.sent[i].seq
    /\ ws.fanout # NoFanout
          => /\ ws.fanout.orderId \in DOMAIN ws.connections
             /\ Range(ws.connections[ws.fanout.orderId])
                   = ws.emits[ws.fanout.seq].registered

\* C17 witness: two emits for one order, each sent to two sockets.
C17_Witness ==
    /\ Len(ws.emits) = 2
    /\ ws.emits[1].orderId = ws.emits[2].orderId
    /\ Len(ws.sent) = 4
    /\ ws.fanout = NoFanout

C25_StoreFollowsBroadcast ==
    \A o \in OrderIds :
        run[o].pc \in {"route", "gateSleep", "building", "swap"}
        => orders[o].status = broadcast[o][Len(broadcast[o])].status

\* C28 (as claimed): the events a run broadcasts begin with `pending`,
\* followed by `routing`.
C28_RunBeginsWithPending ==
    \A o \in OrderIds :
        LET evs == RunEvents(o)
        IN  /\ Len(evs) >= 1 => evs[1].status = "pending"
            /\ Len(evs) >= 2 => evs[2].status = "routing"

\* A body that breaks the rule on orders: an amount that is not strictly
\* positive, or a LIMIT order whose limit price is absent or not positive.
Violates(body) ==
    \/ body.amountIn <= 0
    \/ /\ body.type = "LIMIT"
       /\ (IF Len(body.limitPrice) = 0 THEN TRUE ELSE body.limitPrice[1] <= 0)

\* C29: under SpecApi every order in the record store has a job and a
\* strictly positive amountIn, and if it is a LIMIT order a present, positive
\* limitPrice; every job belongs to such an order; only bodies that keep the
\* rule are answered 202, and the orders created are as many as the 202
\* replies, so a body answered 400 creates no order and no job.
C29_OnlyValidOrdersCreated ==
    /\ \A o \in OrderIds :
          /\ (orders[o].status # "absent") = (job[o].state # "none")
          /\ orders[o].status # "absent"
                => /\ orders[o].amountIn > 0
                   /\ orders[o].type = "LIMIT"
                         => /\ orders[o].limitPrice # NoLimit
                            /\ orders[o].limitPrice > 0
    /\ Cardinality({o \in OrderIds : orders[o].status # "absent"})
          = api.accepted
    /\ Len(waitq) = api.accepted
    /\ api.reply = 202 => ~Violates(api.request)
    /\ Violates(api.request) => api.reply \in {0, 400}

\* C29 witness: a LIMIT body without a limit price answered 400 after another
\* body was accepted, the store and the queue holding that one order only.
C29_Witness ==
    /\ api.reply = 400
    /\ api.request.type = "LIMIT"
    /\ api.request.limitPrice = <<>>
    /\ api.request.amountIn > 0
    /\ api.accepted = 1
    /\ Len(waitq) = 1

\* C30 (as claimed): the routeOrder call of a gate retry has the arguments of
\* the first routeOrder call of the run, the order's own pair and amount.
C30_RetryRoutesOwnOrder ==
    \A o \in OrderIds :
        run[o].retryArgs # NoArgs
        => /\ run[o].retryArgs = run[o].firstArgs
           /\ run[o].retryArgs.amountIn = orders[o].amountIn

\* C21 (as claimed): the scheduler re-runs an order after each of its first 3
\* failed runs and after none beyond: a job has failed for good after 4 runs,
\* and no sooner.
C21_ThreeReruns ==
    \A o \in OrderIds :
        /\ Len(runs[o]) <= 1 + 3
        /\ job[o].state = "failed" => Len(runs[o]) = 1 + 3

\* C22 (as claimed): an order that kept failing until the scheduler gave up
\* was re-run after delays of 1 s, 2 s and 4 s, in that order.
C22_DelaysDouble ==
    \A o \in OrderIds :
        job[o].state = "failed" => job[o].delays = <<1000, 2000, 4000>>

C23_ExceptionEndsFailed ==
    \A o \in OrderIds :
        run[o].pc = "done" /\ run[o].error # NoReason
        => /\ orders[o].status = "failed"
           /\ orders[o].errorReason = run[o].error
           /\ \E i \in DOMAIN RunEvents(o) :
                 /\ RunEvents(o)[i].status = "failed"
                 /\ RunEvents(o)[i].error = run[o].error

\* C24 (as claimed): every run of processLimitOrder ends by returning a
\* result, never by an exception that reaches the worker.
C24_NeverThrows ==
    \A o \in OrderIds : \A i \in DOMAIN runs[o] : runs[o][i] # "thrown"

\* C26 (as claimed): in a run no failed event follows a confirmed event, and a
\* run that broadcast confirmed ends with the order persisted as confirmed.
C26_ConfirmedIsLast ==
    \A o \in OrderIds :
        LET evs == RunEvents(o)
        IN  /\ \A i, j \in DOMAIN evs :
                  evs[i].status = "confirmed" /\ i < j
                  => evs[j].status # "failed"
            /\ (run[o].pc = "done" /\ HasStatus(evs, "confirmed"))
                  => orders[o].status = "confirmed"

\* C31 (as claimed): an order persisted as confirmed carries no errorReason,
\* and one persisted as failed carries no dex, executedPrice or txHash.
C31_OutcomeMatchesStatus ==
    \A o \in OrderIds :
        /\ orders[o].status = "confirmed" => orders[o].errorReason = NoReason
        /\ orders[o].status = "failed"
              => /\ orders[o].dex = ""
                 /\ orders[o].executedPrice = 0
                 /\ orders[o].txHash = ""

\* C32 (as claimed): the executedPrice of a confirmed LIMIT order is at most
\* its limitPrice.
C32_ExecutedWithinLimit ==
    \A o \in OrderIds :
        orders[o].status = "confirmed" /\ orders[o].type = "LIMIT"
        => orders[o].executedPrice <= orders[o].limitPrice

\* C33: in every reachable state the attempts column of an order is the
\* number of runs the worker has started for it, the finished ones and the one
\* under way, whatever the gate of a run has done; it is at most the number
\* of runs BullMQ gives a job.
C33_AttemptsCountRuns ==
    \A o \in OrderIds :
        LET underWay == IF job[o].state = "active" THEN 1 ELSE 0
        IN  /\ orders[o].attempts = Len(runs[o]) + underWay
            /\ orders[o].attempts <= JobAttempts
            /\ job[o].state \in {"none", "waiting"} /\ runs[o] = <<>>
                  => orders[o].attempts = 0

\* C33 witness: the third run of an order, its gate on its second retry wait.
C33_Witness ==
    \E o \in OrderIds :
        /\ orders[o].attempts = JobAttempts
        /\ run[o].pc = "gateSleep"
        /\ run[o].attempt = 2
        /\ run[o].routeCalls = 2

\* C34 (as claimed): every history row has as previousStatus the status the
\* order had before the update that wrote it (pending for the first row, the
\* newStatus of the row before for the others) and as newStatus the status
\* written, which the order has after the last row.
C34_HistoryChains ==
    \A o \in OrderIds :
        LET h == orders[o].history
        IN  /\ \A i \in DOMAIN h :
                  h[i].previousStatus =
                      IF i = 1 THEN "pending" ELSE h[i - 1].newStatus
            /\ h # <<>> => h[Len(h)].newStatus = orders[o].status

\* C40: an order stored without a limit price never passes the gate: none of
\* its events is building, submitted or confirmed, none of its runs ends
\* confirmed, its job never completes, every finished run left it failed with
\* a reason, and its job has failed for good after JobAttempts runs.
C40_NoLimitNeverExecutes ==
    \A o \in OrderIds :
        orders[o].status # "absent" /\ orders[o].limitPrice = NoLimit
        => /\ \A i \in DOMAIN broadcast[o] :
                 broadcast[o][i].status \notin {"building", "submitted", "confirmed"}
           /\ \A i \in DOMAIN runs[o] : runs[o][i] # "confirmed"
           /\ orders[o].status \in {"pending", "failed"}
           /\ job[o].state # "completed"
           /\ run[o].swapCalls = 0
           /\ runs[o] # <<>> => /\ orders[o].status = "failed"
                                /\ orders[o].errorReason # NoReason
           /\ job[o].state = "failed" => Len(runs[o]) = JobAttempts

\* C40 witness: a MARKET order without a limit price, failed after the last
\* run BullMQ gives its job, each run having made maxRetries checks.
C40_Witness ==
    \E o \in OrderIds :
        /\ orders[o].type = "MARKET"
        /\ orders[o].limitPrice = NoLimit
        /\ orders[o].status = "failed"
        /\ job[o].state = "failed"
        /\ run[o].evals = maxRetries
        /\ Len(runs[o]) = JobAttempts

\* C39 (as claimed): the job of an order has completed exactly when the order
\* is persisted as confirmed (once its run is over), and a job that has
\* failed for good leaves the order persisted as failed.
C39_JobMirrorsOrder ==
    \A o \in OrderIds :
        /\ job[o].state = "completed" => orders[o].status = "confirmed"
        /\ orders[o].status = "confirmed" /\ job[o].state # "active"
              => job[o].state = "completed"
        /\ job[o].state = "failed" => orders[o].status = "failed"

\* C35: for every order id, getConnectionCount is the number of distinct
\* sockets subscribed to it and not unsubscribed since (a second subscribe of
\* a socket counts nothing, an unsubscribe of a socket or order the registry
\* does not hold changes nothing), and the registry holds no empty set.
C35_CountIsMembers ==
    /\ DOMAIN ws.connections \subseteq WsOrderIds
    /\ \A o \in WsOrderIds :
          /\ getConnectionCount(ws.connections, o) = Cardinality(ws.members[o])
          /\ o \in DOMAIN ws.connections => ws.connections[o] # <<>>

\* C35 witness: one socket has subscribed twice to one order, which counts
\* one connection.
C35_Witness ==
    \E s \in Sockets, o \in WsOrderIds :
        /\ ws.inbox[s] = <<SubscribedMessage(o), SubscribedMessage(o)>>
        /\ getConnectionCount(ws.connections, o) = 1

\* C36: no step of emit changes the registry, and an emit for an order
\* without an entry returns at once: it sends nothing and adds no entry.
C36_EmitKeepsRegistry ==
    [][/\ (ws.fanout # NoFanout \/ Len(ws'.emits) > Len(ws.emits))
             => ws'.connections = ws.connections
       /\ (/\ Len(ws'.emits) > Len(ws.emits)
           /\ ws'.emits[Len(ws'.emits)].registered = {})
             => /\ ws'.fanout = NoFanout
                /\ ws'.sent = ws.sent
                /\ ws'.inbox = ws.inbox
                /\ ws'.emits[Len(ws'.emits)].orderId \notin DOMAIN ws'.connections]_vars

\* C36 witness: an emit for an order nobody subscribed to has returned, and
\* an emit for an order with a subscriber whose socket is closed has too.
C36_Witness ==
    /\ ws.fanout = NoFanout
    /\ Len(ws.emits) = 2
    /\ ws.emits[1].registered = {}
    /\ ws.emits[2].registered # {}
    /\ ws.emits[2].registered \cap ws.emits[2].open = {}
    /\ ws.sent = <<>>
    /\ ws.emits[2].orderId \in DOMAIN ws.connections

\* C37: a status message a socket has received is of an emit for an order
\* the socket was registered for when emit was called, and the sockets the
\* registry holds for an order are those subscribed to that order and not
\* unsubscribed from that order since: an unsubscribe touches one pair only.
C37_OrdersAreIsolated ==
    /\ \A s \in Sockets : \A i \in DOMAIN ws.inbox[s] :
          LET m == ws.inbox[s][i]
          IN  m.type = "status"
              => /\ m.seq \in DOMAIN ws.emits
                 /\ ws.emits[m.seq].orderId = m.orderId
                 /\ s \in ws.emits[m.seq].registered
    /\ \A o \in WsOrderIds :
          Range(SocketsOf(ws.connections, o)) = ws.members[o]

\* C37 witness: a socket subscribed to two orders and unsubscribed from the
\* first has received the event of the second and not the later event of the
\* first.
C37_Witness ==
    \E s \in Sockets, a, b \in WsOrderIds :
        /\ a # b
        /\ ws.inbox[s] = <<SubscribedMessage(a), SubscribedMessage(b),
                           StatusMessage(b, 1)>>
        /\ Len(ws.emits) = 2
        /\ ws.emits[2].orderId = a
        /\ ws.members[a] = {}
        /\ ws.members[b] = {s}
        /\ ws.fanout = NoFanout

\* C38 (as claimed): in every snapshot getStatistics returns, pending,
\* routing, confirmed and failed add up to total.
C38_StatisticsAddUp ==
    api.stats.pc = "returned"
    => LET c == api.stats.counts
       IN  c["pending"] + c["routing"] + c["confirmed"] + c["failed"]
               = c["total"]

====
